---- MODULE Spec2Model ----
(***************************************************************************)
(* The control-interface client of                                         *)
(* examples/python_control_interface/src/main.py as a state machine.       *)
(*                                                                         *)
(* Two threads share the module-level flags CONNECTED and                  *)
(* CONNECTION_CLOSED: the reading thread (read_from_control_interface,     *)
(* which calls handle_response) and the main thread, which writes Hello,   *)
(* asserts CONNECTED, writes the UpdateStateRequest and then writes the    *)
(* CompleteStateRequest while CONNECTED.  The server is the environment:   *)
(* whenever the reader reads, the next inbound frame is any frame at all,  *)
(* or end-of-stream.                                                       *)
(***************************************************************************)
EXTENDS Integers, Sequences, FiniteSets, TLC

\* How many inbound frames the server delivers before it falls silent.
MaxFrames == 4
\* How many CompleteStateRequests the polling loop sends before the model
\* stops following it (the loop itself is unbounded).
MaxSends == 2
\* How many threads call write_to_control_interface on the same file handle,
\* and how many frames each of them writes.
NumWriters == 2
MaxWrites == 2
\* How many entries the event queue holds before the server waits.
MaxQueue == 2
\* How many lines the event listener reads from the event process.
MaxLines == 2
\* How many keyword calls follow prepare_test_control_interface_workload.
MaxCalls == 4
\* How many times on_connect is invoked, each starting a timer chain.
NumChains == 2
\* How many calls of send_current_speed are followed once two chains run.
MaxRacing == 4

VARIABLES
    CONNECTED,          \* main.py:47, written by handle_response only
    CONNECTION_CLOSED,  \* main.py:48, written by handle_response only
    readerPc,           \* position of the reading thread
    mainPc,             \* position of the main thread
    cur,                \* the FromAnkaios message the reader holds
    nread,              \* frames taken from the input fifo so far
    out,                \* envelopes written to the output fifo, in order
    log,                \* the lines handle_response has logged, in order
    inflight,           \* per request id: requests written and not yet answered
    early,              \* the server delivered a frame before Hello was written
    \* read_protobuf_data on the bytes of one written frame
    fn,                 \* length of the payload the writer serialized
    fseed,              \* which payload of that length
    favail,             \* bytes of the frame on the input before end-of-stream
    fpos,               \* bytes read(1) has consumed
    fpc,                \* position in read_protobuf_data and its caller
    varint_buffer,      \* main.py:128
    msg_len,            \* main.py:136
    msg_buf,            \* main.py:138
    \* write_to_control_interface called by several threads on one file handle
    wpc,                \* per caller: position in write_to_control_interface
    wdone,              \* per caller: frames it has written and flushed
    channel,            \* what file_handle.write has been given, in order
    \* tools/tutorial_event/main.py and the server it subscribes to
    workloads_db,       \* tutorial_event/main.py:50
    evPc,               \* position of the event tool
    event,              \* the event_entry the loop took last
    server,             \* the server's workload states
    subscribed,         \* the server has registered the subscription
    notified,           \* the subscribed part of server as last reported
    event_queue,        \* tutorial_event/main.py:42, entries not yet taken
    queued_at,          \* per queued entry: the subscribed state it reports
    delivered,          \* the subscribed state the entry taken last reports
    \* tests/resources/ankaios_library.py: the event listener process and
    \* workload_has_execution_state
    EVENT_BUFFER,       \* ankaios_library.py:1177, the manager list
    EVENTS_RECEIVED,    \* ankaios_library.py:48, the flag of the mp.Event
    listenerPc,         \* position of listen_with_timeout
    new_line,           \* ankaios_library.py:1123
    nlines,             \* lines the listener has read
    waiterPc,           \* position of workload_has_execution_state
    elapsed,            \* the waiter's timeout has elapsed
    inTime,             \* an expected event was appended and signalled before that
    \* tests/resources/ankaios_library.py: the control-interface keywords
    control_interface_workload_config,      \* ankaios_library.py:337
    control_interface_result_expectations,  \* ankaios_library.py:338
    next_manifest_number,                   \* ankaios_library.py:340
    events_requests,                        \* ankaios_library.py:344
    logs_requests,                          \* ankaios_library.py:343
    uuids,              \* request ids generate_request_id has handed out
    ncalls,             \* keyword calls made since prepare
    last_keyword,       \* the keyword called last
    \* tools/tutorial_fleet_management/vehicle-data-sender
    current_speed,      \* vehicle-data-sender.py:19
    diff,               \* vehicle-data-sender.py:20
    chainPc,            \* per timer chain: position in send_current_speed
    loaded,             \* per timer chain: the current_speed it has loaded
    published,          \* the speed published last (-1 before the first)
    previous,           \* the speed published before that (-1 for none)
    racing              \* send_current_speed calls begun beside another chain

ciVars == <<CONNECTED, CONNECTION_CLOSED, readerPc, mainPc, cur, nread, out, log, inflight, early>>

frameVars == <<fn, fseed, favail, fpos, fpc, varint_buffer, msg_len, msg_buf>>

writerVars == <<wpc, wdone, channel>>

eventVars == <<workloads_db, evPc, event, server, subscribed, notified, event_queue, queued_at, delivered>>

waitVars == <<EVENT_BUFFER, EVENTS_RECEIVED, listenerPc, new_line, nlines, waiterPc, elapsed, inTime>>

keywordVars ==
    <<control_interface_workload_config, control_interface_result_expectations,
      next_manifest_number, events_requests, logs_requests, uuids, ncalls, last_keyword>>

speedVars == <<current_speed, diff, chainPc, loaded, published, previous, racing>>

vars == <<ciVars, frameVars, writerVars, eventVars, waitVars, keywordVars, speedVars>>

\* What a step of one part of the model leaves alone.
notClientVars == <<frameVars, writerVars, eventVars, waitVars, keywordVars, speedVars>>

notFrameVars == <<ciVars, writerVars, eventVars, waitVars, keywordVars, speedVars>>

notWriterVars == <<ciVars, frameVars, eventVars, waitVars, keywordVars, speedVars>>

notEventVars == <<ciVars, frameVars, writerVars, waitVars, keywordVars, speedVars>>

notWaitVars == <<ciVars, frameVars, writerVars, eventVars, keywordVars, speedVars>>

notKeywordVars == <<ciVars, frameVars, writerVars, eventVars, waitVars, speedVars>>

notSpeedVars == <<ciVars, frameVars, writerVars, eventVars, waitVars, keywordVars>>

----------------------------------------------------------------------------
\* Program constants

UPDATE_STATE_REQUEST_ID == "dynamic_nginx@12345"
COMPLETE_STATE_REQUEST_ID == "dynamic_nginx@67890"

\* A request id the client never uses (the server may still send it).
ForeignRequestId == "foreign@0"

\* The ids the client's own requests carry.
RequestIds == {UPDATE_STATE_REQUEST_ID, COMPLETE_STATE_REQUEST_ID}

PROTO_HELLO_MESSAGE == [type |-> "hello", id |-> ""]
PROTO_UPDATE_STATE_REQUEST == [type |-> "request", id |-> UPDATE_STATE_REQUEST_ID]
PROTO_COMPLETE_STATE_REQUEST == [type |-> "request", id |-> COMPLETE_STATE_REQUEST_ID]

\* The FromAnkaios messages a frame can parse to: which oneof field is set
\* ("other": none of the three that handle_response looks at) and, for a
\* response, the requestId it carries.
FromAnkaios ==
    {[kind |-> "controlInterfaceAccepted", id |-> ""],
     [kind |-> "connectionClosed", id |-> ""],
     [kind |-> "other", id |-> ""]}
    \cup {[kind |-> "response", id |-> i] : i \in RequestIds \cup {ForeignRequestId}}

NoMessage == [kind |-> "none", id |-> ""]

\* A line of the reader's log: which logger call of handle_response wrote it,
\* the requestId of the response it is about, and whether a request with that
\* id was in flight when the response was handled.
LogLine(line, id, pending) == [line |-> line, id |-> id, pending |-> pending]

\* The frame reader before it is given anything to read.
FrameIdle ==
    /\ fn = 0
    /\ fseed = 0
    /\ favail = 0
    /\ fpos = 0
    /\ fpc = "idle"
    /\ varint_buffer = <<>>
    /\ msg_len = 0
    /\ msg_buf = <<>>

Writers == 1..NumWriters

\* No caller is inside write_to_control_interface and nothing is written.
WritersInit ==
    /\ wpc = [w \in Writers |-> "idle"]
    /\ wdone = [w \in Writers |-> 0]
    /\ channel = <<>>

\* A dict with no entries.
EmptyDict == [w \in {} |-> ""]

\* No event entry taken yet.
NoEvent ==
    [added_fields |-> {}, updated_fields |-> {}, removed_fields |-> {},
     complete_state |-> EmptyDict]

\* The event tool is not running.
EventsIdle ==
    /\ workloads_db = EmptyDict
    /\ evPc = "off"
    /\ event = NoEvent
    /\ server = EmptyDict
    /\ subscribed = FALSE
    /\ notified = EmptyDict
    /\ event_queue = <<>>
    /\ queued_at = <<>>
    /\ delivered = EmptyDict

\* The vehicle data sender as its module is loaded.
SpeedLoaded ==
    /\ current_speed = 0
    /\ diff = 1
    /\ chainPc = [c \in 1..NumChains |-> "unconnected"]
    /\ loaded = [c \in 1..NumChains |-> 0]
    /\ published = -1
    /\ previous = -1
    /\ racing = 0

\* prepare_test_control_interface_workload has run and no keyword since.
KeywordsPrepared ==
    /\ control_interface_workload_config = <<>>
    /\ control_interface_result_expectations = <<>>
    /\ next_manifest_number = 0
    /\ events_requests = EmptyDict
    /\ logs_requests = EmptyDict
    /\ uuids = 0
    /\ ncalls = 0
    /\ last_keyword = ""

\* Neither the listener process nor a waiter is running.
WaitIdle ==
    /\ EVENT_BUFFER = <<>>
    /\ EVENTS_RECEIVED = FALSE
    /\ listenerPc = "off"
    /\ new_line = ""
    /\ nlines = 0
    /\ waiterPc = "off"
    /\ elapsed = FALSE
    /\ inTime = FALSE

----------------------------------------------------------------------------
ClientInit ==
    /\ CONNECTED = FALSE
    /\ CONNECTION_CLOSED = FALSE
    /\ readerPc = "loop"
    /\ mainPc = "hello"
    /\ cur = NoMessage
    /\ nread = 0
    /\ out = <<>>
    /\ log = <<>>
    /\ inflight = [i \in RequestIds |-> 0]
    /\ early = FALSE

Init ==
    /\ ClientInit
    /\ FrameIdle
    /\ WritersInit
    /\ EventsIdle
    /\ WaitIdle
    /\ KeywordsPrepared
    /\ SpeedLoaded

----------------------------------------------------------------------------
\* The reading thread

\* A reader that never looks at CONNECTION_CLOSED (while True).
ReaderLoopCondAlways == TRUE

\* while not CONNECTION_CLOSED
ReaderLoopCond == ~CONNECTION_CLOSED

ReaderLoop ==
    /\ readerPc = "loop"
    /\ readerPc' = IF ReaderLoopCond THEN "read" ELSE "done"
    /\ UNCHANGED <<CONNECTED, CONNECTION_CLOSED, mainPc, cur, nread, out, log, inflight, early, notClientVars>>

\* A reader that takes the next frame while handle_response still holds
\* the previous one.
ReaderReadAhead ==
    /\ readerPc \in {"read", "dispatch"}
    /\ nread < MaxFrames
    /\ \E m \in FromAnkaios : cur' = m
    /\ nread' = nread + 1
    /\ early' = (early \/ out = <<>>)
    /\ readerPc' = "dispatch"
    /\ UNCHANGED <<CONNECTED, CONNECTION_CLOSED, mainPc, out, log, inflight, notClientVars>>

\* read_protobuf_data returns a frame that parses: the message goes to
\* handle_response.
ReaderRead ==
    /\ readerPc = "read"
    /\ nread < MaxFrames
    /\ \E m \in FromAnkaios : cur' = m
    /\ nread' = nread + 1
    /\ early' = (early \/ out = <<>>)
    /\ readerPc' = "dispatch"
    /\ UNCHANGED <<CONNECTED, CONNECTION_CLOSED, mainPc, out, log, inflight, notClientVars>>

\* A reader that takes a frame it cannot parse for the end of the session.
ReaderParseErrorFatal ==
    /\ readerPc = "read"
    /\ nread < MaxFrames
    /\ nread' = nread + 1
    /\ early' = (early \/ out = <<>>)
    /\ log' = Append(log, LogLine("parse_error", "", FALSE))
    /\ CONNECTION_CLOSED' = TRUE
    /\ readerPc' = "loop"
    /\ UNCHANGED <<CONNECTED, mainPc, cur, out, inflight, notClientVars>>

\* The frame does not parse: ParseFromString raises, the error is logged and
\* the loop continues.
ReaderParseError ==
    /\ readerPc = "read"
    /\ nread < MaxFrames
    /\ nread' = nread + 1
    /\ early' = (early \/ out = <<>>)
    /\ log' = Append(log, LogLine("parse_error", "", FALSE))
    /\ readerPc' = "loop"
    /\ UNCHANGED <<CONNECTED, CONNECTION_CLOSED, mainPc, cur, out, inflight, notClientVars>>

\* The input fifo is at end-of-stream: read(1) returns b'', the varint buffer
\* stays empty and _DecodeVarint(b'', 0) raises IndexError outside the try
\* block, which ends the reading thread.  Neither flag is written.
ReaderEof ==
    /\ readerPc = "read"
    /\ readerPc' = "crashed"
    /\ UNCHANGED <<CONNECTED, CONNECTION_CLOSED, mainPc, cur, nread, out, log, inflight, early, notClientVars>>

\* The two comparisons of handle_response with their request ids exchanged.
ResponseLineSwapped(id) ==
    IF id = COMPLETE_STATE_REQUEST_ID THEN "resp_update"
    ELSE IF id = UPDATE_STATE_REQUEST_ID THEN "resp_complete"
    ELSE "mismatch"

\* handle_response without the second comparison: whatever is not the
\* UpdateStateRequest's response is taken for the CompleteStateRequest's.
ResponseLineNoElse(id) ==
    IF id = UPDATE_STATE_REQUEST_ID THEN "resp_update"
    ELSE "resp_complete"

\* The log line handle_response writes for a response carrying requestId id.
ResponseLine(id) ==
    IF id = UPDATE_STATE_REQUEST_ID THEN "resp_update"
    ELSE IF id = COMPLETE_STATE_REQUEST_ID THEN "resp_complete"
    ELSE "mismatch"

\* The request id a log line attributes its response to ("" for none).
AttributedTo(line) ==
    IF line = "resp_update" THEN PROTO_UPDATE_STATE_REQUEST.id
    ELSE IF line = "resp_complete" THEN PROTO_COMPLETE_STATE_REQUEST.id
    ELSE ""

Pending(id) == id \in RequestIds /\ inflight[id] > 0

\* not CONNECTED, controlInterfaceAccepted
HandleAccepted ==
    /\ readerPc = "dispatch"
    /\ ~CONNECTED
    /\ cur.kind = "controlInterfaceAccepted"
    /\ log' = Append(log, LogLine("accepted", "", FALSE))
    /\ CONNECTED' = TRUE
    /\ readerPc' = "loop"
    /\ cur' = NoMessage
    /\ UNCHANGED <<CONNECTION_CLOSED, mainPc, nread, out, inflight, early, notClientVars>>

\* not CONNECTED, connectionClosed
HandleClosedBeforeConnected ==
    /\ readerPc = "dispatch"
    /\ ~CONNECTED
    /\ cur.kind = "connectionClosed"
    /\ log' = Append(log, LogLine("closed", "", FALSE))
    /\ CONNECTION_CLOSED' = TRUE
    /\ readerPc' = "loop"
    /\ cur' = NoMessage
    /\ UNCHANGED <<CONNECTED, mainPc, nread, out, inflight, early, notClientVars>>

\* A handle_response that looks at a response before it looks at CONNECTED.
HandleResponseBeforeConnected ==
    /\ readerPc = "dispatch"
    /\ ~CONNECTED
    /\ cur.kind \notin {"controlInterfaceAccepted", "connectionClosed"}
    /\ log' = Append(log, LogLine(IF cur.kind = "response" THEN ResponseLine(cur.id)
                                  ELSE "unknown_before", cur.id, Pending(cur.id)))
    /\ readerPc' = "loop"
    /\ cur' = NoMessage
    /\ UNCHANGED <<CONNECTED, CONNECTION_CLOSED, mainPc, nread, out, inflight, early, notClientVars>>

\* not CONNECTED, anything else: logged and skipped
HandleSkipBeforeConnected ==
    /\ readerPc = "dispatch"
    /\ ~CONNECTED
    /\ cur.kind \notin {"controlInterfaceAccepted", "connectionClosed"}
    /\ log' = Append(log, LogLine("unknown_before", cur.id, FALSE))
    /\ readerPc' = "loop"
    /\ cur' = NoMessage
    /\ UNCHANGED <<CONNECTED, CONNECTION_CLOSED, mainPc, nread, out, inflight, early, notClientVars>>

\* CONNECTED, response: logged under the request its requestId names, or
\* skipped when the id is neither of the two
HandleResponse ==
    /\ readerPc = "dispatch"
    /\ CONNECTED
    /\ cur.kind = "response"
    /\ log' = Append(log, LogLine(ResponseLine(cur.id), cur.id, Pending(cur.id)))
    /\ inflight' = [i \in RequestIds |->
                      IF i = AttributedTo(ResponseLine(cur.id)) /\ inflight[i] > 0
                      THEN inflight[i] - 1 ELSE inflight[i]]
    /\ readerPc' = "loop"
    /\ cur' = NoMessage
    /\ UNCHANGED <<CONNECTED, CONNECTION_CLOSED, mainPc, nread, out, early, notClientVars>>

\* CONNECTED, connectionClosed: CONNECTION_CLOSED = True ...
HandleClosedSetClosed ==
    /\ readerPc = "dispatch"
    /\ CONNECTED
    /\ cur.kind = "connectionClosed"
    /\ log' = Append(log, LogLine("closed", "", FALSE))
    /\ CONNECTION_CLOSED' = TRUE
    /\ readerPc' = "closing"
    /\ UNCHANGED <<CONNECTED, mainPc, cur, nread, out, inflight, early, notClientVars>>

\* ... and then, as a second assignment, CONNECTED = False
HandleClosedClearConnected ==
    /\ readerPc = "closing"
    /\ CONNECTED' = FALSE
    /\ readerPc' = "loop"
    /\ cur' = NoMessage
    /\ UNCHANGED <<CONNECTION_CLOSED, mainPc, nread, out, log, inflight, early, notClientVars>>

\* CONNECTED, anything else (a second controlInterfaceAccepted included)
HandleUnknown ==
    /\ readerPc = "dispatch"
    /\ CONNECTED
    /\ cur.kind \notin {"response", "connectionClosed"}
    /\ log' = Append(log, LogLine("unknown", "", FALSE))
    /\ readerPc' = "loop"
    /\ cur' = NoMessage
    /\ UNCHANGED <<CONNECTED, CONNECTION_CLOSED, mainPc, nread, out, inflight, early, notClientVars>>

----------------------------------------------------------------------------
\* The main thread

\* write_to_control_interface, as far as the output fifo and the requests in
\* flight are concerned
Written(message) == Append(out, message)

Sent(message) ==
    [i \in RequestIds |-> IF message.type = "request" /\ message.id = i
                          THEN inflight[i] + 1 ELSE inflight[i]]

MainSendHello ==
    /\ mainPc = "hello"
    /\ out' = Written(PROTO_HELLO_MESSAGE)
    /\ inflight' = Sent(PROTO_HELLO_MESSAGE)
    /\ mainPc' = "assert"
    /\ UNCHANGED <<CONNECTED, CONNECTION_CLOSED, readerPc, cur, nread, log, early, notClientVars>>

\* A main thread without the assertion.
AssertConnectedSkipped == TRUE

\* assert CONNECTED, "Connection to Ankaios not established."
AssertConnected == CONNECTED

\* A main thread that answers a missing acceptance with another Hello.
MainAssertRetry ==
    /\ mainPc = "assert"
    /\ mainPc' = IF AssertConnected THEN "send_update" ELSE "hello"
    /\ UNCHANGED <<CONNECTED, CONNECTION_CLOSED, readerPc, cur, nread, out, log, inflight, early, notClientVars>>

MainAssert ==
    /\ mainPc = "assert"
    /\ mainPc' = IF AssertConnected THEN "send_update" ELSE "assert_failed"
    /\ UNCHANGED <<CONNECTED, CONNECTION_CLOSED, readerPc, cur, nread, out, log, inflight, early, notClientVars>>

MainSendUpdate ==
    /\ mainPc = "send_update"
    /\ out' = Written(PROTO_UPDATE_STATE_REQUEST)
    /\ inflight' = Sent(PROTO_UPDATE_STATE_REQUEST)
    /\ mainPc' = "while"
    /\ UNCHANGED <<CONNECTED, CONNECTION_CLOSED, readerPc, cur, nread, log, early, notClientVars>>

\* The CompleteStateRequests written so far.
CompleteSends == Cardinality({k \in DOMAIN out : out[k] = PROTO_COMPLETE_STATE_REQUEST})

\* A polling loop that never looks at CONNECTED (while True).
MainWhileCondAlways == TRUE

\* while CONNECTED
MainWhileCond == CONNECTED

MainWhile ==
    /\ mainPc = "while"
    /\ MainWhileCond => CompleteSends < MaxSends
    /\ mainPc' = IF MainWhileCond THEN "send_complete" ELSE "join"
    /\ UNCHANGED <<CONNECTED, CONNECTION_CLOSED, readerPc, cur, nread, out, log, inflight, early, notClientVars>>

MainSendComplete ==
    /\ mainPc = "send_complete"
    /\ out' = Written(PROTO_COMPLETE_STATE_REQUEST)
    /\ inflight' = Sent(PROTO_COMPLETE_STATE_REQUEST)
    /\ mainPc' = "while"
    /\ UNCHANGED <<CONNECTED, CONNECTION_CLOSED, readerPc, cur, nread, log, early, notClientVars>>

\* read_thread.join(), then exit(0)
MainJoin ==
    /\ mainPc = "join"
    /\ readerPc \in {"done", "crashed"}
    /\ mainPc' = "exit"
    /\ UNCHANGED <<CONNECTED, CONNECTION_CLOSED, readerPc, cur, nread, out, log, inflight, early, notClientVars>>

----------------------------------------------------------------------------
Reader ==
    \/ ReaderLoop
    \/ ReaderRead
    \/ ReaderParseError
    \/ ReaderEof
    \/ HandleAccepted
    \/ HandleClosedBeforeConnected
    \/ HandleSkipBeforeConnected
    \/ HandleResponse
    \/ HandleClosedSetClosed
    \/ HandleClosedClearConnected
    \/ HandleUnknown

Main ==
    \/ MainSendHello
    \/ MainAssert
    \/ MainSendUpdate
    \/ MainWhile
    \/ MainSendComplete
    \/ MainJoin

Next == Reader \/ Main

Spec == Init /\ [][Next]_vars

\* Both threads are scheduled again and again: neither waits forever while
\* it has a step to take.
SpecFair == Init /\ [][Next]_vars /\ WF_vars(Reader) /\ WF_vars(Main)

----------------------------------------------------------------------------
\* Framing: write_to_control_interface writes _VarintBytes(ByteSize()) and the
\* serialized message; read_protobuf_data reads them back one byte at a time.

\* The payload lengths followed, on both sides of the varint byte boundaries.
FrameLengths == {0, 1, 127, 128, 16383, 16384}

\* _VarintBytes: seven bits a byte, least significant group first, the top
\* bit set on every byte but the last.
RECURSIVE VarintBytes(_)
VarintBytes(n) ==
    IF n < 128 THEN <<n>>
    ELSE <<(n % 128) + 128>> \o VarintBytes(n \div 128)

\* Byte i of the serialized message number seed of length n (bytes with and
\* without the top bit).
PayloadByte(i, seed) == (i * 37 + seed * 101 + 90) % 256

Payload(n, seed) == [i \in 1..n |-> PayloadByte(i, seed)]

\* Byte k of what write_to_control_interface puts on the channel for it.
WireByte(k) ==
    IF k <= Len(VarintBytes(fn)) THEN VarintBytes(fn)[k]
    ELSE PayloadByte(k - Len(VarintBytes(fn)), fseed)

WireLength == Len(VarintBytes(fn)) + fn

\* Where the stream can end: nowhere inside the frame, or after 0, 1 or 2
\* bytes, or right after the length, or one byte short of the whole frame.
Cuts(n) ==
    LET total == Len(VarintBytes(n)) + n
    IN  {c \in {0, 1, 2, Len(VarintBytes(n)), total - 1, total} : c >= 0 /\ c <= total}

FrameInit ==
    /\ fn \in FrameLengths
    /\ fseed \in {0, 1}
    /\ favail \in Cuts(fn)
    /\ fpos = 0
    /\ fpc = "varint"
    /\ varint_buffer = <<>>
    /\ msg_len = 0
    /\ msg_buf = <<>>

\* file_handle.read(1) returns b'' at end-of-stream.
AtEof == fpos >= favail

\* A _DecodeVarint that shifts by a whole byte for every byte.
DecodeVarintShift8(buf, i) ==
    LET RECURSIVE go(_)
        go(k) == IF k > Len(buf) THEN -1
                 ELSE IF buf[k] < 128 THEN buf[k]
                 ELSE LET rest == go(k + 1)
                      IN  IF rest < 0 THEN -1 ELSE (buf[k] - 128) + 256 * rest
    IN  go(i)

\* _DecodeVarint(buffer, pos), pos counted from 1: the value, or -1 where the
\* library indexes past the end of the buffer and raises IndexError.
DecodeVarint(buf, i) ==
    LET RECURSIVE go(_)
        go(k) == IF k > Len(buf) THEN -1
                 ELSE IF buf[k] < 128 THEN buf[k]
                 ELSE LET rest == go(k + 1)
                      IN  IF rest < 0 THEN -1 ELSE (buf[k] - 128) + 128 * rest
    IN  go(i)

\* The first loop of read_protobuf_data: one read(1).
FrameReadVarintByte ==
    /\ fpc = "varint"
    /\ IF AtEof
       THEN /\ fpc' = "decode"
            /\ UNCHANGED <<fpos, varint_buffer>>
       ELSE /\ varint_buffer' = Append(varint_buffer, WireByte(fpos + 1))
            /\ fpos' = fpos + 1
            /\ fpc' = IF WireByte(fpos + 1) < 128 THEN "decode" ELSE "varint"
    /\ UNCHANGED <<fn, fseed, favail, msg_len, msg_buf, notFrameVars>>

\* msg_len, _ = _DecodeVarint(varint_buffer, 0)
FrameDecodeVarint ==
    /\ fpc = "decode"
    /\ IF DecodeVarint(varint_buffer, 1) < 0
       THEN /\ fpc' = "raised"
            /\ UNCHANGED msg_len
       ELSE /\ msg_len' = DecodeVarint(varint_buffer, 1)
            /\ fpc' = "payload"
    /\ UNCHANGED <<fn, fseed, favail, fpos, varint_buffer, msg_buf, notFrameVars>>

\* The second loop: for _ in range(msg_len), one read(1), break at
\* end-of-stream; then return msg_buf.
FrameReadPayloadByte ==
    /\ fpc = "payload"
    /\ IF Len(msg_buf) >= msg_len \/ AtEof
       THEN /\ fpc' = "returned"
            /\ UNCHANGED <<fpos, msg_buf>>
       ELSE /\ msg_buf' = Append(msg_buf, WireByte(fpos + 1))
            /\ fpos' = fpos + 1
            /\ fpc' = "payload"
    /\ UNCHANGED <<fn, fseed, favail, varint_buffer, msg_len, notFrameVars>>

\* from_ankaios.ParseFromString(msg_buf): the bytes the writer serialized
\* parse, and so does the empty buffer (a message with no field set); a
\* proper part of a message parses when it ends between two fields and
\* raises DecodeError otherwise.  What parses goes to handle_response.
FrameParse ==
    /\ fpc = "returned"
    /\ \/ fpc' = "dispatched"
       \/ /\ msg_buf # Payload(fn, fseed)
          /\ msg_buf # <<>>
          /\ fpc' = "parse_error"
    /\ UNCHANGED <<fn, fseed, favail, fpos, varint_buffer, msg_len, msg_buf, notFrameVars>>

FrameNext ==
    \/ FrameReadVarintByte
    \/ FrameDecodeVarint
    \/ FrameReadPayloadByte
    \/ FrameParse

InitFrame ==
    /\ ClientInit
    /\ FrameInit
    /\ WritersInit
    /\ EventsIdle
    /\ WaitIdle
    /\ KeywordsPrepared
    /\ SpeedLoaded

SpecFrame == InitFrame /\ [][FrameNext]_vars

----------------------------------------------------------------------------
\* write_to_control_interface, one call of file_handle at a time.  The
\* function takes no lock; each write call adds its bytes to the file
\* object's buffer in the order of the calls.

\* What one write call puts on the channel: a part of frame k of caller w.
Chunk(w, k, part) == [writer |-> w, frame |-> k, part |-> part]

\* file_handle.write(_VarintBytes(message_len))
WriteLength(w) ==
    /\ wpc[w] = "idle"
    /\ wdone[w] < MaxWrites
    /\ channel' = Append(channel, Chunk(w, wdone[w] + 1, "length"))
    /\ wpc' = [wpc EXCEPT ![w] = "length_written"]
    /\ UNCHANGED <<wdone, notWriterVars>>

\* file_handle.write(message_buffer)
WritePayload(w) ==
    /\ wpc[w] = "length_written"
    /\ channel' = Append(channel, Chunk(w, wdone[w] + 1, "payload"))
    /\ wpc' = [wpc EXCEPT ![w] = "payload_written"]
    /\ UNCHANGED <<wdone, notWriterVars>>

\* file_handle.flush(), and return
WriteFlush(w) ==
    /\ wpc[w] = "payload_written"
    /\ wdone' = [wdone EXCEPT ![w] = wdone[w] + 1]
    /\ wpc' = [wpc EXCEPT ![w] = "idle"]
    /\ UNCHANGED <<channel, notWriterVars>>

WritersNext ==
    \/ \E w \in Writers : WriteLength(w)
    \/ \E w \in Writers : WritePayload(w)
    \/ \E w \in Writers : WriteFlush(w)

InitWriters ==
    /\ ClientInit
    /\ FrameIdle
    /\ WritersInit
    /\ EventsIdle
    /\ WaitIdle
    /\ KeywordsPrepared
    /\ SpeedLoaded

SpecWriters == InitWriters /\ [][WritersNext]_vars

----------------------------------------------------------------------------
\* tools/tutorial_event/main.py: a dict of workload states kept up to date
\* from the entries of one event subscription.  A field path is the sequence
\* of its dot-separated segments.

\* The workload instances there may be: (agent_name, workload_name, workload_id).
WorkloadInstances ==
    {<<"agent_A", "nginx", "1234">>, <<"agent_A", "hello", "5678">>}

\* The members of the SDK's state enum that occur, and what str() makes of one.
WorkloadStateEnum ==
    {<<"WorkloadStateEnum", "PENDING">>, <<"WorkloadStateEnum", "RUNNING">>}

str(member) == member[2]

\* The path SUBSCRIPTION_FIELD_MASKS selects for one workload instance.
StateField(w) == <<"workloadStates", w[1], w[2], w[3], "state">>

\* The path of everything below one agent.
AgentField(agent_name) == <<"workloadStates", agent_name>>

\* The paths an entry may list.
Fields == {StateField(w) : w \in WorkloadInstances} \cup {AgentField("agent_A")}

\* get_workload_states() of a complete state: per instance, its state.
CompleteStates ==
    UNION {[D -> WorkloadStateEnum] : D \in SUBSET WorkloadInstances}

\* Every entry over Fields: each path in at most one of the three lists.
Events ==
    {[added_fields |-> {f \in Fields : k[f] = "added"},
      updated_fields |-> {f \in Fields : k[f] = "updated"},
      removed_fields |-> {f \in Fields : k[f] = "removed"},
      complete_state |-> cs] :
        k \in [Fields -> {"none", "added", "updated", "removed"}],
        cs \in CompleteStates}

None == <<>>

\* A workload_from_field that matches nothing.
WorkloadFromFieldNoMatch(field) == None

\* re.match anchors the pattern at the start of the field only; a segment
\* is [^.]+ and the fifth one has to be "state".
workload_from_field(field) ==
    IF Len(field) >= 5 /\ field[1] = "workloadStates" /\ field[5] = "state"
    THEN <<field[2], field[3], field[4]>>
    ELSE None

\* The workloads the loop body runs for, given the fields it iterates over.
Matched(fields) == {workload_from_field(f) : f \in fields} \ {None}

\* main.py:52-54, the dict built from one complete state.
InitialLoad(complete_state) ==
    [w \in DOMAIN complete_state |-> str(complete_state[w])]

\* get_for_instance_name finds no entry: the attribute access on its result
\* raises.
GetRaises(e) ==
    \E w \in Matched(e.added_fields \cup e.updated_fields) :
        w \notin DOMAIN e.complete_state

\* An assignment that leaves a key that is already there alone.
AfterAddedOnly(db, e) ==
    LET ws == Matched(e.added_fields \cup e.updated_fields)
    IN  [w \in DOMAIN db \cup ws |->
            IF w \in DOMAIN db THEN db[w] ELSE str(e.complete_state[w])]

\* main.py:60-67, the dict after the loop over the added and updated fields.
AfterAddedOrUpdated(db, e) ==
    LET ws == Matched(e.added_fields \cup e.updated_fields)
    IN  [w \in DOMAIN db \cup ws |->
            IF w \in ws THEN str(e.complete_state[w]) ELSE db[w]]

\* del of a key that is not in the dict raises KeyError.
DelRaises(db, e) ==
    \E w \in Matched(e.removed_fields) : w \notin DOMAIN db

\* A loop over the removed fields that deletes nothing.
AfterRemovedKept(db, e) == db

\* main.py:68-71, the dict after the loop over the removed fields.
AfterRemoved(db, e) ==
    [w \in DOMAIN db \ Matched(e.removed_fields) |-> db[w]]

\* ankaios.register_event, then workloads_db = {}
RegisterEvent ==
    /\ evPc = "register"
    /\ evPc' = "initial"
    /\ workloads_db' = EmptyDict
    /\ UNCHANGED <<event, server, subscribed, notified, event_queue, queued_at, delivered, notEventVars>>

\* main.py:51-55 for the entry taken from the queue.
TakeInitial(initial_state) ==
    /\ evPc = "initial"
    /\ workloads_db' = InitialLoad(initial_state.complete_state)
    /\ evPc' = "loop"
    /\ UNCHANGED <<event, notEventVars>>

\* main.py:59-72, one iteration of the loop for the entry taken from the
\* queue.  An exception leaves the with block and ends the program.
EventLoop(event_entry) ==
    /\ evPc = "loop"
    /\ event' = event_entry
    /\ IF GetRaises(event_entry)
       THEN evPc' = "crashed" /\ UNCHANGED workloads_db
       ELSE IF DelRaises(AfterAddedOrUpdated(workloads_db, event_entry), event_entry)
            THEN evPc' = "crashed" /\ UNCHANGED workloads_db
            ELSE /\ workloads_db' =
                        AfterRemoved(AfterAddedOrUpdated(workloads_db, event_entry), event_entry)
                 /\ UNCHANGED evPc
    /\ UNCHANGED notEventVars

\* The queue hands over any complete state at all.
AnyInitialState ==
    /\ \E cs \in CompleteStates :
            TakeInitial([NoEvent EXCEPT !.complete_state = cs])
    /\ UNCHANGED <<server, subscribed, notified, event_queue, queued_at, delivered>>

\* The queue hands over any entry at all.
AnyEvent ==
    /\ \E e \in Events : EventLoop(e)
    /\ UNCHANGED <<server, subscribed, notified, event_queue, queued_at, delivered>>

EventsNext ==
    \/ RegisterEvent
    \/ AnyInitialState
    \/ AnyEvent

\* The tool is about to register; nothing is queued.
EventsStart ==
    /\ workloads_db = EmptyDict
    /\ evPc = "register"
    /\ event = NoEvent
    /\ subscribed = FALSE
    /\ notified = EmptyDict
    /\ event_queue = <<>>
    /\ queued_at = <<>>
    /\ delivered = EmptyDict

InitEvents ==
    /\ ClientInit
    /\ FrameIdle
    /\ WritersInit
    /\ EventsStart
    /\ server = EmptyDict
    /\ WaitIdle
    /\ KeywordsPrepared
    /\ SpeedLoaded

SpecEvents == InitEvents /\ [][EventsNext]_vars

----------------------------------------------------------------------------
\* The server end of the subscription, as the design describes it: it
\* resolves the wildcards of the field mask and reports, since its last
\* notification, the concrete paths added, updated and removed together with
\* the new values of the added and updated ones.  One notification may cover
\* several changes.

\* What the server holds for one workload instance.
ExecutionStates ==
    {[state |-> <<"WorkloadStateEnum", "PENDING">>, subState |-> "PENDING_INITIAL"],
     [state |-> <<"WorkloadStateEnum", "PENDING">>, subState |-> "PENDING_STARTING"],
     [state |-> <<"WorkloadStateEnum", "RUNNING">>, subState |-> "RUNNING_OK"]}

ServerStates ==
    UNION {[D -> ExecutionStates] : D \in SUBSET WorkloadInstances}

\* The part of the server's state that workloadStates.*.*.*.state selects.
Restricted(s) == [w \in DOMAIN s |-> s[w].state]

\* The entry that reports the step from one subscribed state to another.
Diff(old, new) ==
    LET added == DOMAIN new \ DOMAIN old
        updated == {w \in DOMAIN new \cap DOMAIN old : new[w] # old[w]}
        removed == DOMAIN old \ DOMAIN new
    IN  [added_fields |-> {StateField(w) : w \in added},
         updated_fields |-> {StateField(w) : w \in updated},
         removed_fields |-> {StateField(w) : w \in removed},
         complete_state |-> [w \in added \cup updated |-> new[w]]]

\* The server registers the subscription and sends the current state.
ServerSubscribe ==
    /\ evPc = "initial"
    /\ ~subscribed
    /\ subscribed' = TRUE
    /\ event_queue' = <<[NoEvent EXCEPT !.complete_state = Restricted(server)]>>
    /\ queued_at' = <<Restricted(server)>>
    /\ notified' = Restricted(server)
    /\ UNCHANGED <<workloads_db, evPc, event, server, delivered, notEventVars>>

\* A workload appears on the server or changes its execution state.
ServerSet ==
    /\ \E w \in WorkloadInstances, es \in ExecutionStates :
          /\ w \in DOMAIN server => server[w] # es
          /\ server' = [x \in DOMAIN server \cup {w} |-> IF x = w THEN es ELSE server[x]]
    /\ UNCHANGED <<workloads_db, evPc, event, subscribed, notified, event_queue, queued_at, delivered, notEventVars>>

\* A workload disappears from the server.
ServerRemove ==
    /\ \E w \in DOMAIN server :
          server' = [x \in DOMAIN server \ {w} |-> server[x]]
    /\ UNCHANGED <<workloads_db, evPc, event, subscribed, notified, event_queue, queued_at, delivered, notEventVars>>

\* The server reports what changed under the mask since it last reported.
ServerNotify ==
    /\ subscribed
    /\ Restricted(server) # notified
    /\ Len(event_queue) < MaxQueue
    /\ event_queue' = Append(event_queue, Diff(notified, Restricted(server)))
    /\ queued_at' = Append(queued_at, Restricted(server))
    /\ notified' = Restricted(server)
    /\ UNCHANGED <<workloads_db, evPc, event, server, subscribed, delivered, notEventVars>>

\* initial_state = event_queue.get(), and the initial load
QueuedInitialState ==
    /\ event_queue # <<>>
    /\ TakeInitial(Head(event_queue))
    /\ event_queue' = Tail(event_queue)
    /\ queued_at' = Tail(queued_at)
    /\ delivered' = Head(queued_at)
    /\ UNCHANGED <<server, subscribed, notified>>

\* A loop that takes the entry that arrived last.
QueuedEventNewest ==
    /\ event_queue # <<>>
    /\ EventLoop(event_queue[Len(event_queue)])
    /\ event_queue' = SubSeq(event_queue, 1, Len(event_queue) - 1)
    /\ queued_at' = SubSeq(queued_at, 1, Len(queued_at) - 1)
    /\ delivered' = queued_at[Len(queued_at)]
    /\ UNCHANGED <<server, subscribed, notified>>

\* event_entry = event_queue.get(), and the loop body
QueuedEvent ==
    /\ event_queue # <<>>
    /\ EventLoop(Head(event_queue))
    /\ event_queue' = Tail(event_queue)
    /\ queued_at' = Tail(queued_at)
    /\ delivered' = Head(queued_at)
    /\ UNCHANGED <<server, subscribed, notified>>

MirrorNext ==
    \/ RegisterEvent
    \/ ServerSubscribe
    \/ ServerSet
    \/ ServerRemove
    \/ ServerNotify
    \/ QueuedInitialState
    \/ QueuedEvent

InitMirror ==
    /\ ClientInit
    /\ FrameIdle
    /\ WritersInit
    /\ EventsStart
    /\ server \in ServerStates
    /\ WaitIdle
    /\ KeywordsPrepared
    /\ SpeedLoaded

SpecMirror == InitMirror /\ [][MirrorNext]_vars

----------------------------------------------------------------------------
\* tests/resources/ankaios_library.py: the listener process appends the
\* events that `ank get events` prints to EVENT_BUFFER and signals
\* EVENTS_RECEIVED; workload_has_execution_state scans the buffer and waits
\* on EVENTS_RECEIVED until its timeout.  The steps of either side take no
\* time against a timeout of seconds: the waiter's deadline passes only
\* while it is blocked in wait().

\* The execution state the waiter is asked for, as (state, subState).
expected_state == <<"Running", "Ok">>

\* The lines the event process may print: an event in which the workload has
\* the expected state, an event in which it has another, and a line that is
\* not JSON.
Lines == {"event_running_ok", "event_pending_initial", "not_json"}

\* json.loads of a line that parses: what the event says of the workload.
JsonLoads(line) ==
    IF line = "event_running_ok" THEN [state |-> "Running", subState |-> "Ok"]
    ELSE [state |-> "Pending", subState |-> "Initial"]

\* ankaios_library.py:1221-1228 for one event of the buffer.
HasExpectedState(e) == <<e.state, e.subState>> = expected_state

\* EVENTS_RECEIVED.clear(), at the top of each iteration
ListenerClear ==
    /\ listenerPc = "clear"
    /\ nlines < MaxLines
    /\ EVENTS_RECEIVED' = FALSE
    /\ listenerPc' = "readline"
    /\ UNCHANGED <<EVENT_BUFFER, new_line, nlines, waiterPc, elapsed, inTime, notWaitVars>>

\* The listener's own timeout has run out: the loop ends.
ListenerTimeout ==
    /\ listenerPc = "clear"
    /\ listenerPc' = "done"
    /\ UNCHANGED <<EVENT_BUFFER, EVENTS_RECEIVED, new_line, nlines, waiterPc, elapsed, inTime, notWaitVars>>

\* new_line = process.stdout.readline() returns a line
ListenerReadline ==
    /\ listenerPc = "readline"
    /\ \E l \in Lines : new_line' = l
    /\ nlines' = nlines + 1
    /\ listenerPc' = "loads"
    /\ UNCHANGED <<EVENT_BUFFER, EVENTS_RECEIVED, waiterPc, elapsed, inTime, notWaitVars>>

\* readline() returns '' at end-of-file: the event process is restarted, or
\* the loop ends.
ListenerEof ==
    /\ listenerPc = "readline"
    /\ \E pc \in {"clear", "done"} : listenerPc' = pc
    /\ UNCHANGED <<EVENT_BUFFER, EVENTS_RECEIVED, new_line, nlines, waiterPc, elapsed, inTime, notWaitVars>>

\* json.loads and event_buffer.append(event); a line that does not parse is
\* logged and the loop continues
ListenerAppend ==
    /\ listenerPc = "loads"
    /\ IF new_line = "not_json"
       THEN /\ listenerPc' = "clear"
            /\ UNCHANGED EVENT_BUFFER
       ELSE /\ EVENT_BUFFER' = Append(EVENT_BUFFER, JsonLoads(new_line))
            /\ listenerPc' = "set"
    /\ UNCHANGED <<EVENTS_RECEIVED, new_line, nlines, waiterPc, elapsed, inTime, notWaitVars>>

\* EVENTS_RECEIVED.set()
ListenerSet ==
    /\ listenerPc = "set"
    /\ EVENTS_RECEIVED' = TRUE
    /\ inTime' = (inTime \/ (HasExpectedState(EVENT_BUFFER[Len(EVENT_BUFFER)]) /\ ~elapsed))
    /\ listenerPc' = "clear"
    /\ UNCHANGED <<EVENT_BUFFER, new_line, nlines, waiterPc, elapsed, notWaitVars>>

\* workload_has_execution_state is called: start_time is taken
WaiterCall ==
    /\ waiterPc = "idle"
    /\ waiterPc' = "while"
    /\ UNCHANGED <<EVENT_BUFFER, EVENTS_RECEIVED, listenerPc, new_line, nlines, elapsed, inTime, notWaitVars>>

\* while (get_time_secs() - start_time) < timeout_float, else return False
WaiterWhile ==
    /\ waiterPc = "while"
    /\ waiterPc' = IF ~elapsed THEN "scan" ELSE "returned_false"
    /\ UNCHANGED <<EVENT_BUFFER, EVENTS_RECEIVED, listenerPc, new_line, nlines, elapsed, inTime, notWaitVars>>

\* for event in EVENT_BUFFER: ... return True
WaiterScan ==
    /\ waiterPc = "scan"
    /\ waiterPc' = IF \E i \in DOMAIN EVENT_BUFFER : HasExpectedState(EVENT_BUFFER[i])
                   THEN "returned_true" ELSE "remaining"
    /\ UNCHANGED <<EVENT_BUFFER, EVENTS_RECEIVED, listenerPc, new_line, nlines, elapsed, inTime, notWaitVars>>

\* remaining_time > 0, else break and return False
WaiterRemaining ==
    /\ waiterPc = "remaining"
    /\ waiterPc' = IF ~elapsed THEN "wait" ELSE "returned_false"
    /\ UNCHANGED <<EVENT_BUFFER, EVENTS_RECEIVED, listenerPc, new_line, nlines, elapsed, inTime, notWaitVars>>

\* The deadline passes while the waiter is blocked.
WaiterDeadline ==
    /\ waiterPc = "wait"
    /\ ~EVENTS_RECEIVED
    /\ ~elapsed
    /\ elapsed' = TRUE
    /\ UNCHANGED <<EVENT_BUFFER, EVENTS_RECEIVED, listenerPc, new_line, nlines, waiterPc, inTime, notWaitVars>>

\* EVENTS_RECEIVED.wait(timeout=remaining_time) returns: the flag is set, or
\* the remaining time is over
WaiterWake ==
    /\ waiterPc = "wait"
    /\ EVENTS_RECEIVED \/ elapsed
    /\ waiterPc' = "while"
    /\ UNCHANGED <<EVENT_BUFFER, EVENTS_RECEIVED, listenerPc, new_line, nlines, elapsed, inTime, notWaitVars>>

WaitNext ==
    \/ ListenerClear
    \/ ListenerTimeout
    \/ ListenerReadline
    \/ ListenerEof
    \/ ListenerAppend
    \/ ListenerSet
    \/ WaiterCall
    \/ WaiterWhile
    \/ WaiterScan
    \/ WaiterRemaining
    \/ WaiterDeadline
    \/ WaiterWake

\* The listener process has been started; the waiter is not yet called.
InitWait ==
    /\ ClientInit
    /\ FrameIdle
    /\ WritersInit
    /\ EventsIdle
    /\ EVENT_BUFFER = <<>>
    /\ EVENTS_RECEIVED = FALSE
    /\ listenerPc = "clear"
    /\ new_line = ""
    /\ nlines = 0
    /\ waiterPc = "idle"
    /\ elapsed = FALSE
    /\ inTime = FALSE
    /\ KeywordsPrepared
    /\ SpeedLoaded

SpecWait == InitWait /\ [][WaitNext]_vars

----------------------------------------------------------------------------
\* tests/resources/ankaios_library.py: the keywords that build the command
\* list of the control-interface test workload.  Keywords are called one
\* after the other; a keyword whose assertion fails leaves the lists alone.

\* An entry of control_interface_workload_config.  Keys a command type does
\* not have are given as <<>>, FALSE, 0 and -1; arg is the string the
\* keyword was called with.
Command(type, field_mask, subscribe_for_events, request_id, manifest, arg) ==
    [type |-> type, field_mask |-> field_mask,
     subscribe_for_events |-> subscribe_for_events,
     request_id |-> request_id, manifest |-> manifest, arg |-> arg]

\* The field-mask strings the keywords are called with.
FieldMaskArgs == {"workloadStates", "desiredState.workloads and workloadStates"}

\* field_mask.replace(" and ", ", ").split(", ")
SplitFieldMask(field_mask) ==
    IF field_mask = "" THEN <<>>
    ELSE IF field_mask = "desiredState.workloads and workloadStates"
         THEN <<"desiredState.workloads", "workloadStates">>
         ELSE <<field_mask>>

\* The workload-name strings the log keywords are called with.
LogRequestArgs == {"nginx", "nginx on agent_B"}

\* ", ".join(workload_names) once " on <agent>" is split off each item
LogsKey(workload_names_with_agents) ==
    IF workload_names_with_agents = "nginx on agent_B" THEN "nginx"
    ELSE workload_names_with_agents

\* dict[key] = value
DictSet(d, key, value) ==
    [k \in DOMAIN d \cup {key} |-> IF k = key THEN value ELSE d[k]]

\* What every keyword call does besides its own work.
Called(keyword) ==
    /\ ncalls < MaxCalls
    /\ ncalls' = ncalls + 1
    /\ last_keyword' = keyword

\* A SendHello that is appended whatever the list ends with.
SendHelloAlways ==
    /\ Called("SendHello")
    /\ control_interface_workload_config' =
           Append(control_interface_workload_config, Command("SendHello", <<>>, FALSE, 0, -1, ""))
    /\ UNCHANGED <<control_interface_result_expectations, next_manifest_number, events_requests, logs_requests, uuids, notKeywordVars>>

\* internal_send_initial_hello
SendHello ==
    /\ Called("SendHello")
    /\ IF /\ control_interface_workload_config # <<>>
          /\ control_interface_workload_config[Len(control_interface_workload_config)].type = "SendHello"
       THEN UNCHANGED control_interface_workload_config
       ELSE control_interface_workload_config' =
                Append(control_interface_workload_config, Command("SendHello", <<>>, FALSE, 0, -1, ""))
    /\ UNCHANGED <<control_interface_result_expectations, next_manifest_number, events_requests, logs_requests, uuids, notKeywordVars>>

\* internal_controller_wait_milliseconds
WaitMilliseconds ==
    /\ Called("Timeout")
    /\ control_interface_workload_config' =
           Append(control_interface_workload_config, Command("Timeout", <<>>, FALSE, 0, -1, ""))
    /\ UNCHANGED <<control_interface_result_expectations, next_manifest_number, events_requests, logs_requests, uuids, notKeywordVars>>

\* internal_add_update_state_command, with add_to_manifest_list
AddUpdateStateCommand ==
    /\ Called("UpdateState")
    /\ control_interface_workload_config' =
           Append(control_interface_workload_config,
                  Command("UpdateState", <<>>, FALSE, 0, next_manifest_number, ""))
    /\ next_manifest_number' = next_manifest_number + 1
    /\ UNCHANGED <<control_interface_result_expectations, events_requests, logs_requests, uuids, notKeywordVars>>

\* internal_add_get_state_command; generate_request_id gives an id no
\* earlier call has given
AddGetStateCommand ==
    /\ Called("GetState")
    /\ \E field_mask \in FieldMaskArgs, subscribe_for_events \in BOOLEAN :
          /\ events_requests' =
                 IF subscribe_for_events
                 THEN DictSet(events_requests, field_mask, uuids + 1)
                 ELSE events_requests
          /\ control_interface_workload_config' =
                 Append(control_interface_workload_config,
                        Command("GetState", SplitFieldMask(field_mask), subscribe_for_events,
                                uuids + 1, -1, field_mask))
    /\ uuids' = uuids + 1
    /\ UNCHANGED <<control_interface_result_expectations, next_manifest_number, logs_requests, notKeywordVars>>

\* internal_add_cancel_events_command
AddCancelEventsCommand ==
    /\ Called("CancelEvents")
    /\ \E field_mask \in FieldMaskArgs :
          /\ field_mask \in DOMAIN events_requests
          /\ control_interface_workload_config' =
                 Append(control_interface_workload_config,
                        Command("CancelEvents", <<>>, FALSE, events_requests[field_mask], -1, field_mask))
    /\ UNCHANGED <<control_interface_result_expectations, next_manifest_number, events_requests, logs_requests, uuids, notKeywordVars>>

\* internal_add_get_event_command
AddGetEventCommand ==
    /\ Called("GetEvent")
    /\ \E field_mask \in FieldMaskArgs :
          /\ field_mask \in DOMAIN events_requests
          /\ control_interface_workload_config' =
                 Append(control_interface_workload_config,
                        Command("GetEvent", <<>>, FALSE, events_requests[field_mask], -1, field_mask))
    /\ UNCHANGED <<control_interface_result_expectations, next_manifest_number, events_requests, logs_requests, uuids, notKeywordVars>>

\* internal_add_logs_request_command
AddLogsRequestCommand ==
    /\ Called("RequestLogs")
    /\ \E names \in LogRequestArgs :
          /\ logs_requests' = DictSet(logs_requests, LogsKey(names), uuids + 1)
          /\ control_interface_workload_config' =
                 Append(control_interface_workload_config,
                        Command("RequestLogs", <<>>, FALSE, uuids + 1, -1, names))
    /\ uuids' = uuids + 1
    /\ UNCHANGED <<control_interface_result_expectations, next_manifest_number, events_requests, notKeywordVars>>

\* internal_get_logs_command
GetLogsCommand ==
    /\ Called("GetLogs")
    /\ \E names \in LogRequestArgs :
          /\ names \in DOMAIN logs_requests
          /\ control_interface_workload_config' =
                 Append(control_interface_workload_config,
                        Command("GetLogs", <<>>, FALSE, logs_requests[names], -1, names))
    /\ UNCHANGED <<control_interface_result_expectations, next_manifest_number, events_requests, logs_requests, uuids, notKeywordVars>>

\* internal_add_cancel_logs_request_command
AddCancelLogsRequestCommand ==
    /\ Called("CancelLogs")
    /\ \E names \in LogRequestArgs :
          /\ names \in DOMAIN logs_requests
          /\ control_interface_workload_config' =
                 Append(control_interface_workload_config,
                        Command("CancelLogs", <<>>, FALSE, logs_requests[names], -1, names))
    /\ UNCHANGED <<control_interface_result_expectations, next_manifest_number, events_requests, logs_requests, uuids, notKeywordVars>>

\* The entry the three ..._in_last_result keywords append.
Expectation(type) ==
    [response_number |-> Len(control_interface_workload_config) - 1, type |-> type]

\* internal_check_control_interface_workloads_in_last_result,
\* ..._workload_fields_in_last_result and ..._altered_fields_in_last_result
CheckInLastResult ==
    /\ Called("CheckInLastResult")
    /\ \E type \in {"exact_workloads", "exact_workload_fields", "exact_altered_fields"} :
          control_interface_result_expectations' =
              Append(control_interface_result_expectations, Expectation(type))
    /\ UNCHANGED <<control_interface_workload_config, next_manifest_number, events_requests, logs_requests, uuids, notKeywordVars>>

KeywordsNext ==
    \/ SendHello
    \/ WaitMilliseconds
    \/ AddUpdateStateCommand
    \/ AddGetStateCommand
    \/ AddCancelEventsCommand
    \/ AddGetEventCommand
    \/ AddLogsRequestCommand
    \/ GetLogsCommand
    \/ AddCancelLogsRequestCommand
    \/ CheckInLastResult

InitKeywords ==
    /\ ClientInit
    /\ FrameIdle
    /\ WritersInit
    /\ EventsIdle
    /\ WaitIdle
    /\ KeywordsPrepared
    /\ SpeedLoaded

SpecKeywords == InitKeywords /\ [][KeywordsNext]_vars

----------------------------------------------------------------------------
\* tools/tutorial_fleet_management/vehicle-data-sender: every on_connect
\* starts a chain of timers, each of which runs send_current_speed in a
\* thread of its own.  The chains share current_speed and diff without a
\* lock, and a thread switch can fall between any two of the steps below.

Chains == 1..NumChains

\* the number of timer chains started so far
Connected == Cardinality({c \in Chains : chainPc[c] # "unconnected"})

\* on_connect: the first send_current_speed of a new chain begins
OnConnect(c) ==
    /\ chainPc[c] = "unconnected"
    /\ \A b \in Chains : b < c => chainPc[b] # "unconnected"
    /\ chainPc' = [chainPc EXCEPT ![c] = "load"]
    /\ UNCHANGED <<current_speed, diff, loaded, published, previous, racing, notSpeedVars>>

\* current_speed += diff, the load of current_speed
LoadSpeed(c) ==
    /\ chainPc[c] = "load"
    /\ Connected = 1 \/ racing < MaxRacing
    /\ loaded' = [loaded EXCEPT ![c] = current_speed]
    /\ chainPc' = [chainPc EXCEPT ![c] = "store"]
    /\ racing' = IF Connected = 1 THEN racing ELSE racing + 1
    /\ UNCHANGED <<current_speed, diff, published, previous, notSpeedVars>>

\* current_speed += diff, the addition and the store
StoreSpeed(c) ==
    /\ chainPc[c] = "store"
    /\ current_speed' = loaded[c] + diff
    /\ loaded' = [loaded EXCEPT ![c] = 0]
    /\ chainPc' = [chainPc EXCEPT ![c] = "turn"]
    /\ UNCHANGED <<diff, published, previous, racing, notSpeedVars>>

\* if current_speed >= 100: diff = -1, elif current_speed <= 0: diff = 1
TurnAround(c) ==
    /\ chainPc[c] = "turn"
    /\ diff' = IF current_speed >= 100 THEN -1
               ELSE IF current_speed <= 0 THEN 1
               ELSE diff
    /\ chainPc' = [chainPc EXCEPT ![c] = "publish"]
    /\ UNCHANGED <<current_speed, loaded, published, previous, racing, notSpeedVars>>

\* client.publish(TOPIC, str(current_speed)), and the timer that runs the
\* next send_current_speed of the chain
Publish(c) ==
    /\ chainPc[c] = "publish"
    /\ published' = current_speed
    /\ previous' = published
    /\ chainPc' = [chainPc EXCEPT ![c] = "load"]
    /\ UNCHANGED <<current_speed, diff, loaded, racing, notSpeedVars>>

SpeedNext ==
    \/ \E c \in Chains : OnConnect(c)
    \/ \E c \in Chains : LoadSpeed(c)
    \/ \E c \in Chains : StoreSpeed(c)
    \/ \E c \in Chains : TurnAround(c)
    \/ \E c \in Chains : Publish(c)

\* The module is loaded: current_speed = 0, diff = 1, not yet connected.
InitSpeed ==
    /\ ClientInit
    /\ FrameIdle
    /\ WritersInit
    /\ EventsIdle
    /\ WaitIdle
    /\ KeywordsPrepared
    /\ SpeedLoaded

SpecSpeed == InitSpeed /\ [][SpeedNext]_vars

----------------------------------------------------------------------------
\* What the claims speak of

Requests == {k \in DOMAIN out : out[k].type = "request"}

\* Requests with this id written so far.
SentCount(id) == Cardinality({k \in Requests : out[k].id = id})

HelloSent == out # <<>>

AcceptedProcessed == \E j \in DOMAIN log : log[j].line = "accepted"

\* handle_response has returned from an inbound ConnectionClosed.
ClosedProcessed ==
    /\ \E j \in DOMAIN log : log[j].line = "closed"
    /\ readerPc # "closing"

\* This step is handle_response taking the message the reader holds.
Dispatches == readerPc = "dispatch" /\ readerPc' # "dispatch"

\* This step is handle_response returning.
Returns == readerPc \in {"dispatch", "closing"} /\ readerPc' = "loop"

LastLine(l) == l[Len(l)]

----------------------------------------------------------------------------
\* C1: the first envelope on the output channel is Hello, and a Request is
\* on the output channel only if the reader has processed a
\* ControlInterfaceAccepted before.
HandshakeOrdering ==
    /\ out # <<>> => out[1] = PROTO_HELLO_MESSAGE
    /\ Requests # {} => AcceptedProcessed

\* A Request has been written.
HandshakeOrderingWitness ==
    /\ Requests # {}
    /\ out[1] = PROTO_HELLO_MESSAGE
    /\ AcceptedProcessed

\* C2 (as claimed): once handle_response has returned from a ConnectionClosed,
\* nothing more is written to the output channel (stated for the sessions in
\* which the server speaks only after Hello).
NoWriteAfterClosed == [][(~early /\ ClosedProcessed) => out' = out]_vars

\* C3 (as claimed): when the input reaches end-of-stream while the session is
\* Connected, the connected flag is cleared and the closure is flagged, so
\* that the sending loop stops.
EofClosesSession ==
    (readerPc = "crashed" /\ ~early /\ AcceptedProcessed) =>
        (~CONNECTED /\ CONNECTION_CLOSED)

\* C4: processing ConnectionClosed sets the session Closed; once the handler
\* has returned the flags hold Closed, and from then on no flag changes, no
\* frame is read and none is dispatched.
ClosedIsFinal ==
    /\ [][(Dispatches /\ cur.kind = "connectionClosed") => CONNECTION_CLOSED']_vars
    /\ [](ClosedProcessed => (CONNECTION_CLOSED /\ ~CONNECTED))
    /\ [][ClosedProcessed =>
            /\ UNCHANGED <<CONNECTED, CONNECTION_CLOSED, log, nread, cur>>
            /\ readerPc' \in {"loop", "done"}]_vars

\* ConnectionClosed was processed while Connected, the server had more to
\* say, and the reader has left its loop.
ClosedIsFinalWitness ==
    /\ AcceptedProcessed
    /\ ClosedProcessed
    /\ readerPc = "done"
    /\ nread < MaxFrames
    /\ ~CONNECTED

\* C5: a message other than ControlInterfaceAccepted and ConnectionClosed
\* that is dispatched while not Connected changes neither flag nor any
\* request's standing, is logged as skipped, and the reader goes on to the
\* next frame.
DiscardedBeforeConnected ==
    [][(Dispatches /\ ~CONNECTED
            /\ cur.kind \notin {"controlInterfaceAccepted", "connectionClosed"}) =>
        /\ UNCHANGED <<CONNECTED, CONNECTION_CLOSED, inflight>>
        /\ log' = Append(log, LogLine("unknown_before", cur.id, FALSE))
        /\ readerPc' = "loop"
        /\ ReaderLoopCond']_vars

\* A Response came first and was skipped, then ControlInterfaceAccepted was
\* processed.
DiscardedBeforeConnectedWitness ==
    /\ Len(log) >= 2
    /\ log[1] = LogLine("unknown_before", UPDATE_STATE_REQUEST_ID, FALSE)
    /\ log[2].line = "accepted"
    /\ CONNECTED

\* C6 (as claimed): when the handler of ConnectionClosed returns, every
\* request that was in flight has been resolved: none is left unanswered.
NothingPendingAfterClose ==
    [][(~early /\ Returns /\ CONNECTION_CLOSED') =>
            \A i \in RequestIds : inflight'[i] = 0]_vars

\* C7 (as claimed): at most one request per id is in flight.
UniqueInFlightIds == ~early => \A i \in RequestIds : inflight[i] <= 1

\* C8: every response handled while a request with its id is in flight is
\* logged as the answer to the request carrying that id, and no response is
\* logged as the answer to a request with another id.
ResponseMatchesById ==
    \A j \in DOMAIN log :
        /\ AttributedTo(log[j].line) # "" => AttributedTo(log[j].line) = log[j].id
        /\ log[j].pending => AttributedTo(log[j].line) = log[j].id

\* Both requests were in flight and the answers came in reverse order.
ResponseMatchesByIdWitness ==
    /\ Len(log) >= 3
    /\ log[2] = LogLine("resp_complete", COMPLETE_STATE_REQUEST_ID, TRUE)
    /\ log[3] = LogLine("resp_update", UPDATE_STATE_REQUEST_ID, TRUE)

AtMostOneDelivery ==
    \A j, k \in DOMAIN log :
        (/\ ~early
         /\ j < k
         /\ log[j].pending
         /\ AttributedTo(log[j].line) = log[j].id
         /\ log[k].id = log[j].id
         /\ ~log[k].pending) => AttributedTo(log[k].line) = ""

\* C13: a frame that does not parse is logged and discarded: neither flag and
\* no request's standing changes, handle_response gets no message and logs
\* nothing, and the reader goes on to read the next frame.
UnparsableFrameDiscarded ==
    [][(readerPc = "read" /\ readerPc' = "loop") =>
        /\ UNCHANGED <<CONNECTED, CONNECTION_CLOSED, inflight, cur>>
        /\ cur = NoMessage
        /\ log' = Append(log, LogLine("parse_error", "", FALSE))
        /\ ReaderLoopCond']_vars

\* While Connected with the UpdateStateRequest in flight a frame failed to
\* parse, and the reader is reading the next frame.
UnparsableFrameDiscardedWitness ==
    /\ log # <<>>
    /\ LastLine(log).line = "parse_error"
    /\ CONNECTED
    /\ inflight[UPDATE_STATE_REQUEST_ID] = 1
    /\ readerPc = "read"

\* C15: when the wait after Hello ends and no ControlInterfaceAccepted has
\* been processed, the assertion fails; from then on the main thread stays
\* failed and the output channel holds Hello and nothing else.
HandshakeTimeout ==
    /\ [][(mainPc = "assert" /\ mainPc' # "assert" /\ ~AcceptedProcessed) =>
            mainPc' = "assert_failed"]_vars
    /\ [](mainPc = "assert_failed" => out = <<PROTO_HELLO_MESSAGE>>)
    /\ [][mainPc = "assert_failed" => (mainPc' = "assert_failed" /\ out' = out)]_vars

\* The assertion failed without any acceptance, and the server went on
\* talking afterwards.
HandshakeTimeoutWitness ==
    /\ mainPc = "assert_failed"
    /\ ~AcceptedProcessed
    /\ ~early
    /\ nread >= 1
    /\ out = <<PROTO_HELLO_MESSAGE>>

\* C20 (as claimed): whenever the session is Connected, Hello has been written.
ConnectedOnlyAfterHello == CONNECTED => HelloSent

\* C11: for each payload length on either side of the varint byte
\* boundaries, reading the whole frame the writer wrote never raises and
\* returns exactly the payload bytes written, with every byte of the frame
\* consumed.
FrameRoundTrip ==
    favail = WireLength =>
        /\ fpc # "raised"
        /\ fpc \in {"returned", "dispatched"} =>
              /\ msg_len = fn
              /\ msg_buf = Payload(fn, fseed)
              /\ fpos = WireLength

\* A frame with a two-byte length has been read back whole.
FrameRoundTripWitness ==
    /\ fpc = "returned"
    /\ fn = 128
    /\ favail = WireLength
    /\ Len(varint_buffer) = 2
    /\ Len(msg_buf) = 128

\* C12 (as claimed): a payload shorter than the length declared for it is
\* never handed to handle_response.
NoShortPayloadDispatched == fpc = "dispatched" => Len(msg_buf) = msg_len

\* C14 (as claimed): on the output channel every length prefix is followed
\* at once by the payload of the same frame, however many threads write.
FramesNotInterleaved ==
    \A i \in DOMAIN channel :
        (channel[i].part = "length" /\ i < Len(channel)) =>
            channel[i + 1] = Chunk(channel[i].writer, channel[i].frame, "payload")

\* Path p is path q or an ancestor of it.
IsPrefix(p, q) ==
    /\ Len(p) <= Len(q)
    /\ \A i \in 1..Len(p) : q[i] = p[i]

\* C16 (as claimed): once an entry is applied, the dict holds no workload
\* whose path is, or lies below, a path of the entry's removed fields.
RemovalIsPrefixBased ==
    evPc = "loop" =>
        \A p \in event.removed_fields :
            \A w \in DOMAIN workloads_db : ~IsPrefix(p, StateField(w))

OneFrameAtATime ==
    /\ Len(log) = nread - (IF readerPc = "dispatch" THEN 1 ELSE 0)
    /\ readerPc \notin {"dispatch", "closing"} => cur = NoMessage

\* The second frame is being dispatched in a session that the first frame,
\* a ControlInterfaceAccepted, has connected.
OneFrameAtATimeWitness ==
    /\ readerPc = "dispatch"
    /\ nread = 2
    /\ ~early
    /\ CONNECTED
    /\ Len(log) = 1
    /\ log[1].line = "accepted"

\* C24 (as claimed): CONNECTED and CONNECTION_CLOSED are never both true.
FlagsExclusive == ~early => ~(CONNECTED /\ CONNECTION_CLOSED)

\* The client has ended: the reader left its loop and the main thread
\* exited or died of its assertion.
Terminated ==
    /\ readerPc = "done"
    /\ mainPc \in {"exit", "assert_failed"}

\* C25: once handle_response has returned from a ConnectionClosed, no
\* further frame is read, a check of the polling loop's condition leaves the
\* loop, and with both threads scheduled the reader leaves its loop and the
\* main thread ends; when the main thread had got past its assertion it
\* ends by joining the reader and exiting.
TerminationAfterClose ==
    /\ [][ClosedProcessed => nread' = nread]_vars
    /\ [][(ClosedProcessed /\ mainPc = "while") => mainPc' \in {"while", "join"}]_vars
    /\ ClosedProcessed ~> Terminated
    /\ (ClosedProcessed /\ mainPc \in {"send_update", "while", "send_complete", "join"})
            ~> (readerPc = "done" /\ mainPc = "exit")

\* The session was connected, polled at least once, was closed by the
\* server, and both threads have ended.
TerminationAfterCloseWitness ==
    /\ ClosedProcessed
    /\ ~early
    /\ AcceptedProcessed
    /\ CompleteSends >= 1
    /\ readerPc = "done"
    /\ mainPc = "exit"

RemovingAbsentIsNoOp ==
    (/\ event.added_fields = {}
     /\ event.updated_fields = {}
     /\ event.removed_fields # {}) => evPc # "crashed"

\* C23 (as claimed): workload_has_execution_state returns False only if no
\* event with the expected state was appended, and EVENTS_RECEIVED set for
\* it, before its timeout elapsed.
NoLostWakeup == waiterPc = "returned_false" => ~inTime

\* The type of the command appended last ("" for an empty list).
LastCommandType ==
    IF control_interface_workload_config = <<>> THEN ""
    ELSE control_interface_workload_config[Len(control_interface_workload_config)].type

\* C27: the command list never holds two SendHello commands next to each
\* other; a call of the SendHello keyword leaves the list alone when the
\* list ends with a SendHello and appends one SendHello otherwise.
NoAdjacentSendHello ==
    /\ [](\A i \in 1..(Len(control_interface_workload_config) - 1) :
            ~(/\ control_interface_workload_config[i].type = "SendHello"
              /\ control_interface_workload_config[i + 1].type = "SendHello"))
    /\ [][(ncalls' = ncalls + 1 /\ last_keyword' = "SendHello") =>
            IF LastCommandType = "SendHello"
            THEN control_interface_workload_config' = control_interface_workload_config
            ELSE /\ Len(control_interface_workload_config') =
                        Len(control_interface_workload_config) + 1
                 /\ LastCommandType' = "SendHello"
                 /\ SubSeq(control_interface_workload_config', 1,
                           Len(control_interface_workload_config)) =
                        control_interface_workload_config]_vars

\* SendHello was called twice in a row and again after another command:
\* the second call was skipped and the third appended.
NoAdjacentSendHelloWitness ==
    /\ ncalls = 4
    /\ last_keyword = "SendHello"
    /\ Len(control_interface_workload_config) = 3
    /\ control_interface_workload_config[1].type = "SendHello"
    /\ control_interface_workload_config[2].type = "Timeout"
    /\ control_interface_workload_config[3].type = "SendHello"

\* Command j carries the id of an earlier command of the given type that
\* was issued for the same field-mask string, or the same workload names.
CarriesIdOf(j, type) ==
    \E i \in 1..(j - 1) :
        /\ control_interface_workload_config[i].type = type
        /\ control_interface_workload_config[i].request_id =
               control_interface_workload_config[j].request_id
        /\ (IF type = "RequestLogs"
            THEN LogsKey(control_interface_workload_config[i].arg)
            ELSE control_interface_workload_config[i].arg) =
               control_interface_workload_config[j].arg
        /\ type = "GetState" => control_interface_workload_config[i].subscribe_for_events

\* C28 (as claimed): every CancelEvents and GetEvent carries the id of an
\* earlier subscribing GetState for the same field-mask string and every
\* subscription's id can still be looked up; the same for GetLogs and
\* CancelLogs with RequestLogs.
RequestIdsTraceable ==
    \A j \in DOMAIN control_interface_workload_config :
        LET c == control_interface_workload_config[j]
        IN  /\ c.type \in {"CancelEvents", "GetEvent"} => CarriesIdOf(j, "GetState")
            /\ c.type \in {"GetLogs", "CancelLogs"} => CarriesIdOf(j, "RequestLogs")
            /\ (c.type = "GetState" /\ c.subscribe_for_events) =>
                  \E m \in DOMAIN events_requests : events_requests[m] = c.request_id
            /\ c.type = "RequestLogs" =>
                  \E n \in DOMAIN logs_requests : logs_requests[n] = c.request_id

\* C29 (as claimed): every recorded expectation's response_number is an
\* index into the command list.
ResponseNumberInRange ==
    \A k \in DOMAIN control_interface_result_expectations :
        /\ 0 <= control_interface_result_expectations[k].response_number
        /\ control_interface_result_expectations[k].response_number <
               Len(control_interface_workload_config)

\* C30 (as claimed): every published speed lies in 0..100 and differs by
\* exactly 1 from the speed published before it.
SpeedStepsWithinRange ==
    /\ published # -1 => published \in 0..100
    /\ previous # -1 => (published - previous) \in {-1, 1}

====
